---- MODULE Spec2Model ----
(***************************************************************************)
(* A model of convert_to_smplx.py: the conversion of a MANO hand-pose      *)
(* bundle (Dyn-HaMR output) into SMPL-X bundles, and the command-line      *)
(* driver around it.                                                       *)
(*                                                                         *)
(* An array is a record [shape, data]: data is the array's elements in     *)
(* row-major (C) order, so reshape keeps data and changes shape, and       *)
(* a[b] cuts the b-th block out of data.  Indices are 0-based as in the    *)
(* source.  A path or file name is a tuple of one-character strings.       *)
(* Console output (print) is not part of the state, except the error       *)
(* lines the driver prints, which are kept in reported.                    *)
(***************************************************************************)
EXTENDS Integers, Sequences, FiniteSets, TLC

(***************************************************************************)
(* Bounds of the model.                                                    *)
(***************************************************************************)
MaxB == 2
MaxT == 2
MaxFiles == 2

(***************************************************************************)
(* Program constants.                                                      *)
(***************************************************************************)
HandDim == 45
BodyDim == 63
BetasDim == 10
NumJoints == 15
AxisDim == 3

(***************************************************************************)
(* numpy arrays.                                                           *)
(***************************************************************************)
RECURSIVE Prod(_)
Prod(s) == IF s = <<>> THEN 1 ELSE Head(s) * Prod(Tail(s))

NoArray == [shape |-> <<>>, data |-> <<>>]

Rank(a) == Len(a.shape)

Zeros(shape) == [shape |-> shape, data |-> [i \in 1..Prod(shape) |-> 0]]

\* a[np.newaxis, ...]
NewAxis(a) == [shape |-> <<1>> \o a.shape, data |-> a.data]

\* a.reshape(d0, -1)
Reshape2(a, d0) == [shape |-> <<d0, Prod(a.shape) \div d0>>, data |-> a.data]

\* a.reshape(d0, d1, -1)
Reshape3(a, d0, d1) ==
    [shape |-> <<d0, d1, Prod(a.shape) \div (d0 * d1)>>, data |-> a.data]

\* a[b] is defined when a has an axis 0 and b is inside it
CanIndex(a, b) == Rank(a) >= 1 /\ b >= 0 /\ b < a.shape[1]

\* a[b]
Index(a, b) ==
    LET stride == Prod(Tail(a.shape))
    IN  [shape |-> Tail(a.shape),
         data  |-> SubSeq(a.data, b * stride + 1, (b + 1) * stride)]

\* np.allclose(a, 0)
AllZero(a) == \A i \in 1..Len(a.data) : a.data[i] = 0

(***************************************************************************)
(* Exceptions: the type, the message text and the shapes the message       *)
(* prints.                                                                 *)
(***************************************************************************)
NoExc == [type |-> "", text |-> "", shapes |-> {}]

Exc(type, text, shapes) == [type |-> type, text |-> text, shapes |-> shapes]

IndexOutOfBounds(b, a) ==
    Exc("IndexError", "index is out of bounds for axis 0", {})

(***************************************************************************)
(* Strings.                                                                *)
(***************************************************************************)
UpperChars == <<"A","B","C","D","E","F","G","H","I","J","K","L","M",
                "N","O","P","Q","R","S","T","U","V","W","X","Y","Z">>
LowerChars == <<"a","b","c","d","e","f","g","h","i","j","k","l","m",
                "n","o","p","q","r","s","t","u","v","w","x","y","z">>

LowerChar(c) ==
    IF \E i \in 1..26 : UpperChars[i] = c
    THEN LowerChars[CHOOSE i \in 1..26 : UpperChars[i] = c]
    ELSE c

\* s.lower()
Lower(s) == [i \in 1..Len(s) |-> LowerChar(s[i])]

\* s.startswith(p) at position i (1-based)
MatchAt(s, p, i) ==
    /\ i >= 1
    /\ i + Len(p) - 1 <= Len(s)
    /\ \A k \in 1..Len(p) : s[i + k - 1] = p[k]

\* s.endswith(p)
EndsWith(s, p) == Len(p) <= Len(s) /\ MatchAt(s, p, Len(s) - Len(p) + 1)

\* p in s
Contains(s, p) == \E i \in 1..(Len(s) + 1) : MatchAt(s, p, i)

\* s.replace(old, new), old not empty: every occurrence, left to right
RECURSIVE Replace(_, _, _)
Replace(s, old, new) ==
    IF s = <<>> THEN <<>>
    ELSE IF MatchAt(s, old, 1)
         THEN new \o Replace(SubSeq(s, Len(old) + 1, Len(s)), old, new)
         ELSE <<Head(s)>> \o Replace(Tail(s), old, new)

Digits == <<"0","1","2","3","4","5","6","7","8","9">>

\* str(n), n >= 0
RECURSIVE IntToStr(_)
IntToStr(n) ==
    IF n < 10 THEN <<Digits[n + 1]>>
    ELSE IntToStr(n \div 10) \o <<Digits[(n % 10) + 1]>>

LastIndexOf(s, c) ==
    IF \E i \in 1..Len(s) : s[i] = c
    THEN CHOOSE i \in 1..Len(s) : s[i] = c /\ \A j \in (i + 1)..Len(s) : s[j] # c
    ELSE 0

\* os.path.splitext(p): the extension starts at the last dot of the last
\* component, unless only dots precede it there
SplitExt(p) ==
    LET sep == LastIndexOf(p, "/")
        dot == LastIndexOf(p, ".")
    IN  IF dot > sep /\ \E k \in (sep + 1)..(dot - 1) : p[k] # "."
        THEN [root |-> SubSeq(p, 1, dot - 1), ext |-> SubSeq(p, dot, Len(p))]
        ELSE [root |-> p, ext |-> <<>>]

\* os.path.join(d, f), f not absolute
Join(d, f) == IF d = <<>> \/ d[Len(d)] = "/" THEN d \o f ELSE d \o <<"/">> \o f

DotNpz == <<".", "n", "p", "z">>
Smplx == <<"s", "m", "p", "l", "x">>
SmplxSuffix == <<"_", "s", "m", "p", "l", "x", ".", "n", "p", "z">>
BatchWord == <<"_", "b", "a", "t", "c", "h">>
RightWord == <<"r", "i", "g", "h", "t">>
LeftWord == <<"l", "e", "f", "t">>

\* the file np.savez(file, ...) writes: ".npz" is appended when missing
SavezFile(p) == IF EndsWith(p, DotNpz) THEN p ELSE p \o DotNpz

(***************************************************************************)
(* analyze_hands_in_data(data): one record per trajectory found in         *)
(* data['is_right'].  The result is [exc, hands_info].                     *)
(***************************************************************************)
HandInfo(b, right, n) == [batch_idx |-> b, is_right |-> right, num_frames |-> n]

\* bool(x) of a number
Bool(x) == x # 0

analyze_hands_in_data(data) ==
    IF "is_right" \notin DOMAIN data
    THEN [exc |-> NoExc,
          hands_info |-> <<HandInfo(0, TRUE, data["pose_body"].shape[2])>>]
    ELSE LET is_right == data["is_right"]
         IN  IF Rank(is_right) = 1
             THEN [exc |-> NoExc,
                   hands_info |-> <<HandInfo(0, Bool(is_right.data[1]),
                                             is_right.shape[1])>>]
             ELSE IF Rank(is_right) = 2
             THEN [exc |-> NoExc,
                   hands_info |->
                     [k \in 1..is_right.shape[1] |->
                        HandInfo(k - 1,
                                 Bool(Index(Index(is_right, k - 1), 0).data[1]),
                                 is_right.shape[2])]]
             ELSE [exc |-> Exc("ValueError", "unsupported is_right shape",
                               {is_right.shape}),
                   hands_info |-> <<>>]

(***************************************************************************)
(* convert_mano_to_smplx, lines 93-120: pose_body is brought to (B, T, 45) *)
(* by its rank, then the two assertions are made.  The result is           *)
(* [exc, pose_body, root_orient, trans, B, T].                             *)
(***************************************************************************)
Normalized(pb, ro, tr, b, t) ==
    [pose_body |-> pb, root_orient |-> ro, trans |-> tr, B |-> b, T |-> t]

\* lines 94-116: the branch on len(pose_body.shape)
ReshapeByRank(pb, ro, tr) ==
    IF Rank(pb) = 4
    THEN [exc |-> NoExc,
          val |-> Normalized(Reshape3(pb, pb.shape[1], pb.shape[2]), ro, tr,
                             pb.shape[1], pb.shape[2])]
    ELSE IF Rank(pb) = 3
    THEN [exc |-> NoExc,
          val |-> Normalized(NewAxis(Reshape2(pb, pb.shape[1])),
                             NewAxis(ro), NewAxis(tr), 1, pb.shape[1])]
    ELSE IF Rank(pb) = 2
    THEN [exc |-> NoExc,
          val |-> Normalized(NewAxis(pb), NewAxis(ro), NewAxis(tr),
                             1, NewAxis(pb).shape[2])]
    ELSE IF Rank(pb) < 2
    THEN [exc |-> Exc("IndexError", "tuple index out of range", {}),
          val |-> Normalized(pb, ro, tr, 0, 0)]
    ELSE [exc |-> NoExc,
          val |-> Normalized(pb, ro, tr, pb.shape[1], pb.shape[2])]

\* lines 118-120: the two assertions on the final shape
CheckFinalShape(n) ==
    IF Rank(n.pose_body) # 3
    THEN Exc("AssertionError", "pose_body shape is wrong", {n.pose_body.shape})
    ELSE IF n.pose_body.shape[3] # HandDim
    THEN Exc("AssertionError", "pose_body last dimension should be 45", {})
    ELSE NoExc

NormalizePoseBody(pb, ro, tr) ==
    LET r == ReshapeByRank(pb, ro, tr)
    IN  IF r.exc # NoExc THEN r
        ELSE [exc |-> CheckFinalShape(r.val), val |-> r.val]

(***************************************************************************)
(* convert_mano_to_smplx, lines 122-130: betas.                            *)
(***************************************************************************)
ProcessBetas(data, b) ==
    IF "betas" \in DOMAIN data
    THEN IF Rank(data["betas"]) = 1 THEN NewAxis(data["betas"])
         ELSE data["betas"]
    ELSE Zeros(<<b, BetasDim>>)

(***************************************************************************)
(* convert_mano_to_smplx, lines 147-220: the body of the loop over         *)
(* hands_info.  The result is [exc, dict]; dict maps the SMPL-X keys to    *)
(* arrays and '_metadata' to the metadata record.                          *)
(***************************************************************************)
\* a slip in lines 180-187: the sides are exchanged
MutHandPoses(is_right, hand_pose, t) ==
    IF is_right
    THEN [right_hand_pose |-> Zeros(<<t, HandDim>>), left_hand_pose |-> hand_pose]
    ELSE [right_hand_pose |-> hand_pose, left_hand_pose |-> Zeros(<<t, HandDim>>)]

\* lines 180-187: the hand pose goes to its side, zeros to the other
HandPoses(is_right, hand_pose, t) ==
    IF is_right
    THEN [right_hand_pose |-> hand_pose, left_hand_pose |-> Zeros(<<t, HandDim>>)]
    ELSE [right_hand_pose |-> Zeros(<<t, HandDim>>), left_hand_pose |-> hand_pose]

\* a slip in lines 196 and 203: the test of B is forgotten
MutCamIndexed(cam, minRank, b) == Rank(cam) > minRank

\* lines 196 and 203: is the camera field indexed by the trajectory?
CamIndexed(cam, minRank, b) == Rank(cam) > minRank /\ b > 1

\* lines 194-209: the camera fields that are present
CameraFields(data, bIdx, b) ==
    (IF "cam_R" \in DOMAIN data
     THEN "cam_R" :> (IF CamIndexed(data["cam_R"], 2, b)
                      THEN Index(data["cam_R"], bIdx) ELSE data["cam_R"])
     ELSE <<>>)
    @@
    (IF "cam_t" \in DOMAIN data
     THEN "cam_t" :> (IF CamIndexed(data["cam_t"], 1, b)
                      THEN Index(data["cam_t"], bIdx) ELSE data["cam_t"])
     ELSE <<>>)
    @@
    (IF "intrins" \in DOMAIN data THEN "intrins" :> data["intrins"] ELSE <<>>)

\* the first index of the loop body that is out of bounds, if any
LoopBodyExc(data, bIdx, pb, ro, tr, betas, b) ==
    IF ~CanIndex(pb, bIdx) THEN IndexOutOfBounds(bIdx, pb)
    ELSE IF ~CanIndex(ro, bIdx) THEN IndexOutOfBounds(bIdx, ro)
    ELSE IF ~CanIndex(tr, bIdx) THEN IndexOutOfBounds(bIdx, tr)
    ELSE IF ~CanIndex(betas, bIdx) THEN IndexOutOfBounds(bIdx, betas)
    ELSE IF /\ "cam_R" \in DOMAIN data
            /\ CamIndexed(data["cam_R"], 2, b)
            /\ ~CanIndex(data["cam_R"], bIdx)
    THEN IndexOutOfBounds(bIdx, data["cam_R"])
    ELSE IF /\ "cam_t" \in DOMAIN data
            /\ CamIndexed(data["cam_t"], 1, b)
            /\ ~CanIndex(data["cam_t"], bIdx)
    THEN IndexOutOfBounds(bIdx, data["cam_t"])
    ELSE NoExc

\* a slip in line 153: the width of the hand pose instead of the body's
MutBodyPose(t) == Zeros(<<t, HandDim>>)

\* line 153
BodyPose(t) == Zeros(<<t, BodyDim>>)

BuildSmplxDict(hand_info, data, pb, ro, tr, betas, b, t) ==
    LET bIdx == hand_info.batch_idx
        hands == HandPoses(hand_info.is_right, Index(pb, bIdx), t)
    IN  ("body_pose" :> BodyPose(t))
        @@ ("global_orient" :> Index(ro, bIdx))
        @@ ("transl" :> Index(tr, bIdx))
        @@ ("betas" :> Index(betas, bIdx))
        @@ ("right_hand_pose" :> hands.right_hand_pose)
        @@ ("left_hand_pose" :> hands.left_hand_pose)
        @@ CameraFields(data, bIdx, b)
        @@ ("_metadata" :> [source |-> "Dyn-HaMR",
                            original_batch_idx |-> bIdx,
                            is_right_hand |-> hand_info.is_right,
                            num_frames |-> t])

\* lines 239 and 257: the dictionary without '_metadata'
SaveDict(d) == [k \in (DOMAIN d) \ {"_metadata"} |-> d[k]]

(***************************************************************************)
(* convert_mano_to_smplx, lines 222-259: the output paths.                 *)
(***************************************************************************)
\* lines 223-225
DefaultOutputPath(input_npz_path) == SplitExt(input_npz_path).root \o SmplxSuffix

HandType(is_right) == IF is_right THEN RightWord ELSE LeftWord

\* line 247
BatchOutputPath(output_path, i, is_right) ==
    Replace(output_path, DotNpz,
            BatchWord \o IntToStr(i) \o <<"_">> \o HandType(is_right) \o DotNpz)

(***************************************************************************)
(* main, lines 325-326: the files of the directory that are converted.     *)
(***************************************************************************)
Eligible(f) == EndsWith(f, DotNpz) /\ ~Contains(Lower(f), Smplx)

RECURSIVE SelectEligible(_)
SelectEligible(names) ==
    IF names = <<>> THEN <<>>
    ELSE IF Eligible(Head(names))
         THEN <<Head(names)>> \o SelectEligible(Tail(names))
         ELSE SelectEligible(Tail(names))

(***************************************************************************)
(* The inputs: the bundles an input file can hold.                         *)
(***************************************************************************)
\* an array of the shape, all zero or with pairwise distinct non-zero values
Fill(shape, kind, base) ==
    IF kind = "zeros" THEN Zeros(shape)
    ELSE [shape |-> shape, data |-> [i \in 1..Prod(shape) |-> base + i]]

Layouts == {"BT15x3", "T15x3", "T45", "BT45", "rank1", "rank5"}

Batched(layout) == layout \in {"BT15x3", "BT45", "rank5"}

PoseShape(layout, b, t) ==
    CASE layout = "BT15x3" -> <<b, t, NumJoints, AxisDim>>
      [] layout = "T15x3"  -> <<t, NumJoints, AxisDim>>
      [] layout = "T45"    -> <<t, HandDim>>
      [] layout = "BT45"   -> <<b, t, HandDim>>
      [] layout = "rank1"  -> <<t * HandDim>>
      [] layout = "rank5"  -> <<b, t, NumJoints, AxisDim, 1>>

\* the shape of root_orient and trans that goes with the layout
MotionShape(layout, b, t) ==
    IF Batched(layout) THEN <<b, t, AxisDim>> ELSE <<t, AxisDim>>

\* the values of is_right along one trajectory
IsRightRows(t) ==
    { [i \in 1..t |-> 1], [i \in 1..t |-> 0],
      [i \in 1..t |-> IF i = 1 THEN 1 ELSE 0],
      [i \in 1..t |-> IF i = 1 THEN 0 ELSE 1] }

RECURSIVE Flatten(_)
Flatten(rows) == IF rows = <<>> THEN <<>> ELSE Head(rows) \o Flatten(Tail(rows))

\* is_right: absent (no array), of shape (T,) or of shape (B, T)
IsRightOptions(b, t) ==
    {NoArray}
    \cup {[shape |-> <<t>>, data |-> row] : row \in IsRightRows(t)}
    \cup {[shape |-> <<b, t>>, data |-> Flatten(rows)] :
            rows \in [1..b -> IsRightRows(t)]}

BetasOptions == {"absent", "rank1", "rank2"}

CamOptions == {"none", "static", "per_traj", "per_frame"}

BetasOf(opt, b, kind) ==
    IF opt = "rank1" THEN "betas" :> Fill(<<BetasDim>>, kind, 3000)
    ELSE IF opt = "rank2" THEN "betas" :> Fill(<<b, BetasDim>>, kind, 3000)
    ELSE <<>>

CameraOf(opt, b, t) ==
    IF opt = "static"
    THEN ("cam_R" :> Fill(<<3, 3>>, "iota", 4000))
         @@ ("cam_t" :> Fill(<<3>>, "iota", 5000))
         @@ ("intrins" :> Fill(<<4>>, "iota", 6000))
    ELSE IF opt = "per_traj"
    THEN ("cam_R" :> Fill(<<b, t, 3, 3>>, "iota", 4000))
         @@ ("cam_t" :> Fill(<<b, t, 3>>, "iota", 5000))
         @@ ("intrins" :> Fill(<<4>>, "iota", 6000))
    ELSE IF opt = "per_frame"
    THEN ("cam_R" :> Fill(<<t, 3, 3>>, "iota", 4000))
         @@ ("cam_t" :> Fill(<<t, 3>>, "iota", 5000))
    ELSE <<>>

Bundle(layout, b, t, kind, isr, betasOpt, camOpt) ==
    ("pose_body" :> Fill(PoseShape(layout, b, t), kind, 0))
    @@ ("root_orient" :> Fill(MotionShape(layout, b, t), kind, 1000))
    @@ ("trans" :> Fill(MotionShape(layout, b, t), kind, 2000))
    @@ (IF isr = NoArray THEN <<>> ELSE "is_right" :> isr)
    @@ BetasOf(betasOpt, b, kind)
    @@ CameraOf(camOpt, b, t)

\* the values of B a layout can hold
BatchSizes(layout) == IF layout \in {"BT15x3", "BT45"} THEN 1..MaxB ELSE {1}

BundlesOf(layout, b, t) ==
    { Bundle(layout, b, t, kind, isr, betasOpt, camOpt) :
        kind \in {"zeros", "iota"}, isr \in IsRightOptions(b, t),
        betasOpt \in BetasOptions, camOpt \in CamOptions }

Bundles ==
    UNION { UNION { BundlesOf(layout, b, t) :
                      b \in BatchSizes(layout), t \in 1..MaxT } :
            layout \in Layouts }

(***************************************************************************)
(* The file system and the command lines.                                  *)
(***************************************************************************)
InFile == <<"x", ".", "n", "p", "z">>
MissingPath == <<"m", ".", "n", "p", "z">>
DirPath == <<"d">>

\* args.output: None is the empty path
None == <<>>
OutNpz == <<"o", ".", "n", "p", "z">>
OutBare == <<"o">>
OutputOptions == {None, OutNpz, OutBare}

FileA == <<"a", ".", "n", "p", "z">>
FileB == <<"b", ".", "n", "p", "z">>
FileC == <<"c", ".", "n", "p", "z">>
FileS == <<"a", "_", "s", "m", "p", "l", "x", ".", "n", "p", "z">>
FileU == <<"u", "_", "S", "M", "P", "L", "X", ".", "n", "p", "z">>
FileT == <<"n", ".", "t", "x", "t">>
CatalogueNames == {FileA, FileB, FileC, FileS, FileU, FileT}

\* what the files of the directory hold: a.npz one right hand, b.npz a
\* pose_body of rank 1, c.npz a right and a left trajectory, u_SMPLX.npz
\* one left hand; the other two hold no MANO data
CatalogueBundle(name) ==
    IF name = FileA
    THEN Bundle("T45", 1, 1, "iota", [shape |-> <<1>>, data |-> <<1>>],
                "rank1", "none")
    ELSE IF name = FileB
    THEN Bundle("rank1", 1, 1, "iota", NoArray, "absent", "none")
    ELSE IF name = FileC
    THEN Bundle("BT15x3", 2, 1, "iota", [shape |-> <<2, 1>>, data |-> <<1, 0>>],
                "rank2", "per_traj")
    ELSE IF name = FileU
    THEN Bundle("T15x3", 1, 1, "iota", [shape |-> <<1>>, data |-> <<0>>],
                "absent", "static")
    ELSE <<>>

\* os.listdir: the names of the directory, in any order
Listings ==
    { l \in UNION { [1..n -> CatalogueNames] : n \in 0..MaxFiles } :
        \A i, j \in 1..Len(l) : i # j => l[i] # l[j] }

\* the file system after f is written
Put(fs, f, d) == [q \in (DOMAIN fs) \cup {f} |-> IF q = f THEN d ELSE fs[q]]

VARIABLES
    args,             \* the parsed command line: input, output, batch
    dirEntries,       \* os.listdir of the directory DirPath
    files,            \* path -> the arrays stored in the file
    mpc,              \* where main is
    npz_files,        \* main: the files to convert
    fileIdx,          \* main: how many of npz_files the loop has passed
    success_count,    \* main
    exit_status,      \* -1 while the process runs
    reported,         \* the exceptions main has printed
    calls,            \* the input paths convert_mano_to_smplx was called with
    cpc,              \* where convert_mano_to_smplx is
    input_npz_path,   \* the locals of convert_mano_to_smplx from here on
    output_path,
    mano_data,
    pose_body,
    root_orient,
    trans,
    betas,
    B,
    T,
    hands_info,
    smplx_data_list,
    output_paths,
    exc               \* the exception convert_mano_to_smplx raised

mainVars == <<args, dirEntries, mpc, npz_files, fileIdx, success_count,
              exit_status, reported, calls>>
frameVars == <<input_npz_path, output_path, mano_data, pose_body, root_orient,
               trans, betas, B, T, hands_info, smplx_data_list, output_paths,
               exc>>
vars == <<mainVars, files, cpc, frameVars>>

Exists(p) == p = DirPath \/ p \in DOMAIN files
IsDir(p) == p = DirPath

InitMain ==
    /\ mpc = "start"
    /\ npz_files = <<>>
    /\ fileIdx = 0
    /\ success_count = 0
    /\ exit_status = -1
    /\ reported = <<>>
    /\ calls = <<>>

InitFrame ==
    /\ cpc = "idle"
    /\ input_npz_path = <<>>
    /\ output_path = None
    /\ mano_data = <<>>
    /\ pose_body = NoArray
    /\ root_orient = NoArray
    /\ trans = NoArray
    /\ betas = NoArray
    /\ B = 0
    /\ T = 0
    /\ hands_info = <<>>
    /\ smplx_data_list = <<>>
    /\ output_paths = <<>>
    /\ exc = NoExc

\* python convert_to_smplx.py x.npz [-o OUTPUT] [--batch]
InitSingle ==
    /\ \E bundle \in Bundles : files = (InFile :> bundle)
    /\ \E out \in OutputOptions, batch \in BOOLEAN :
          /\ batch => out = None
          /\ args = [input |-> InFile, output |-> out, batch |-> batch]
    /\ dirEntries = <<>>

\* python convert_to_smplx.py d [--batch]
InitBatch ==
    /\ dirEntries \in Listings
    /\ files = [q \in {Join(DirPath, dirEntries[i]) : i \in 1..Len(dirEntries)} |->
                  CatalogueBundle(SubSeq(q, Len(DirPath) + 2, Len(q)))]
    /\ \E batch \in BOOLEAN :
          args = [input |-> DirPath, output |-> None, batch |-> batch]

\* python convert_to_smplx.py m.npz [--batch], and no such file
InitMissing ==
    /\ files = <<>>
    /\ dirEntries = <<>>
    /\ \E batch \in BOOLEAN :
          args = [input |-> MissingPath, output |-> None, batch |-> batch]

Init == InitMain /\ InitFrame /\ (InitSingle \/ InitBatch \/ InitMissing)

(***************************************************************************)
(* convert_mano_to_smplx, step by step.                                    *)
(***************************************************************************)
Raise(e) ==
    /\ exc' = e
    /\ cpc' = "raised"

\* the call itself: the parameters are bound, the locals are fresh
Call(input, output) ==
    /\ cpc' = "load"
    /\ input_npz_path' = input
    /\ output_path' = output
    /\ calls' = Append(calls, input)
    /\ mano_data' = <<>>
    /\ pose_body' = NoArray
    /\ root_orient' = NoArray
    /\ trans' = NoArray
    /\ betas' = NoArray
    /\ B' = 0
    /\ T' = 0
    /\ hands_info' = <<>>
    /\ smplx_data_list' = <<>>
    /\ output_paths' = <<>>
    /\ exc' = NoExc

RequiredKeys == <<"pose_body", "root_orient", "trans">>

\* lines 81-91
Load ==
    /\ cpc = "load"
    /\ LET data == files[input_npz_path]
           missing == {i \in 1..3 : RequiredKeys[i] \notin DOMAIN data}
       IN  /\ mano_data' = data
           /\ IF missing # {}
              THEN /\ Raise(Exc("KeyError", "is not a file in the archive", {}))
                   /\ UNCHANGED <<pose_body, root_orient, trans>>
              ELSE /\ pose_body' = data["pose_body"]
                   /\ root_orient' = data["root_orient"]
                   /\ trans' = data["trans"]
                   /\ cpc' = "normalize"
                   /\ exc' = exc
    /\ UNCHANGED <<mainVars, files, input_npz_path, output_path, betas, B, T,
                   hands_info, smplx_data_list, output_paths>>

\* lines 93-120
Normalize ==
    /\ cpc = "normalize"
    /\ LET r == NormalizePoseBody(pose_body, root_orient, trans)
       IN  /\ pose_body' = r.val.pose_body
           /\ root_orient' = r.val.root_orient
           /\ trans' = r.val.trans
           /\ B' = r.val.B
           /\ T' = r.val.T
           /\ IF r.exc # NoExc THEN Raise(r.exc)
              ELSE cpc' = "betas" /\ exc' = exc
    /\ UNCHANGED <<mainVars, files, input_npz_path, output_path, mano_data,
                   betas, hands_info, smplx_data_list, output_paths>>

\* lines 122-130
Betas ==
    /\ cpc = "betas"
    /\ betas' = ProcessBetas(mano_data, B)
    /\ cpc' = "analyze"
    /\ UNCHANGED <<mainVars, files, input_npz_path, output_path, mano_data,
                   pose_body, root_orient, trans, B, T, hands_info,
                   smplx_data_list, output_paths, exc>>

\* line 136
AnalyzeHands ==
    /\ cpc = "analyze"
    /\ LET r == analyze_hands_in_data(mano_data)
       IN  /\ hands_info' = r.hands_info
           /\ IF r.exc # NoExc THEN Raise(r.exc)
              ELSE cpc' = "build" /\ exc' = exc
    /\ UNCHANGED <<mainVars, files, input_npz_path, output_path, mano_data,
                   pose_body, root_orient, trans, betas, B, T,
                   smplx_data_list, output_paths>>

\* lines 147-220: one pass of the loop over hands_info
BuildBundle ==
    /\ cpc = "build"
    /\ Len(smplx_data_list) < Len(hands_info)
    /\ LET hand_info == hands_info[Len(smplx_data_list) + 1]
           e == LoopBodyExc(mano_data, hand_info.batch_idx, pose_body,
                            root_orient, trans, betas, B)
       IN  IF e # NoExc
           THEN Raise(e) /\ UNCHANGED smplx_data_list
           ELSE /\ smplx_data_list' =
                     Append(smplx_data_list,
                            BuildSmplxDict(hand_info, mano_data, pose_body,
                                           root_orient, trans, betas, B, T))
                /\ UNCHANGED <<cpc, exc>>
    /\ UNCHANGED <<mainVars, files, input_npz_path, output_path, mano_data,
                   pose_body, root_orient, trans, betas, B, T, hands_info,
                   output_paths>>

\* lines 222-227: the loop is over, the output path is settled
PrepareSave ==
    /\ cpc = "build"
    /\ Len(smplx_data_list) = Len(hands_info)
    /\ output_path' = IF output_path = None
                      THEN DefaultOutputPath(input_npz_path)
                      ELSE output_path
    /\ output_paths' = <<>>
    /\ cpc' = "save"
    /\ UNCHANGED <<mainVars, files, input_npz_path, mano_data, pose_body,
                   root_orient, trans, betas, B, T, hands_info,
                   smplx_data_list, exc>>

\* lines 229-241 and 273: one trajectory, one file, and the return
SaveSingle ==
    /\ cpc = "save"
    /\ B = 1
    /\ files' = Put(files, SavezFile(output_path), SaveDict(smplx_data_list[1]))
    /\ output_paths' = Append(output_paths, output_path)
    /\ cpc' = "returned"
    /\ UNCHANGED <<mainVars, input_npz_path, output_path, mano_data, pose_body,
                   root_orient, trans, betas, B, T, hands_info,
                   smplx_data_list, exc>>

\* lines 243-259: one pass of the loop over smplx_data_list
SaveBatchFile ==
    /\ cpc = "save"
    /\ B # 1
    /\ Len(output_paths) < Len(smplx_data_list)
    /\ LET i == Len(output_paths)
           batch_output_path ==
               BatchOutputPath(output_path, i, hands_info[i + 1].is_right)
       IN  /\ files' = Put(files, SavezFile(batch_output_path),
                           SaveDict(smplx_data_list[i + 1]))
           /\ output_paths' = Append(output_paths, batch_output_path)
    /\ UNCHANGED <<mainVars, cpc, input_npz_path, output_path, mano_data,
                   pose_body, root_orient, trans, betas, B, T, hands_info,
                   smplx_data_list, exc>>

\* line 273, after the loop over smplx_data_list
ReturnPaths ==
    /\ cpc = "save"
    /\ B # 1
    /\ Len(output_paths) = Len(smplx_data_list)
    /\ cpc' = "returned"
    /\ UNCHANGED <<mainVars, files, frameVars>>

(***************************************************************************)
(* main.                                                                   *)
(***************************************************************************)
Exit(status) ==
    /\ exit_status' = status
    /\ mpc' = "exited"

\* lines 313-333 and 351-353
MainStart ==
    /\ mpc = "start"
    /\ IF ~Exists(args.input)
       THEN Exit(1) /\ UNCHANGED npz_files
       ELSE IF args.batch \/ IsDir(args.input)
       THEN IF ~IsDir(args.input)
            THEN Exit(1) /\ UNCHANGED npz_files
            ELSE /\ npz_files' = SelectEligible(dirEntries)
                 /\ IF Len(SelectEligible(dirEntries)) = 0
                    THEN Exit(1)
                    ELSE mpc' = "batch" /\ UNCHANGED exit_status
       ELSE mpc' = "single" /\ UNCHANGED <<npz_files, exit_status>>
    /\ UNCHANGED <<args, dirEntries, fileIdx, success_count, reported, calls,
                   files, cpc, frameVars>>

\* lines 334-340
BatchCall ==
    /\ mpc = "batch"
    /\ cpc = "idle"
    /\ fileIdx < Len(npz_files)
    /\ Call(Join(args.input, npz_files[fileIdx + 1]), None)
    /\ UNCHANGED <<args, dirEntries, mpc, npz_files, fileIdx, success_count,
                   exit_status, reported, files>>

\* line 341
BatchSuccess ==
    /\ mpc = "batch"
    /\ cpc = "returned"
    /\ success_count' = success_count + 1
    /\ fileIdx' = fileIdx + 1
    /\ cpc' = "idle"
    /\ UNCHANGED <<args, dirEntries, mpc, npz_files, exit_status, reported,
                   calls, files, frameVars>>

\* a slip in lines 342-346: the error ends the process as in lines 356-361
MutBatchExcept ==
    /\ mpc = "batch"
    /\ cpc = "raised"
    /\ reported' = Append(reported, exc)
    /\ Exit(1)
    /\ UNCHANGED <<args, dirEntries, npz_files, fileIdx, success_count, calls,
                   files, cpc, frameVars>>

\* lines 342-346
BatchExcept ==
    /\ mpc = "batch"
    /\ cpc = "raised"
    /\ reported' = Append(reported, exc)
    /\ fileIdx' = fileIdx + 1
    /\ cpc' = "idle"
    /\ UNCHANGED <<args, dirEntries, mpc, npz_files, success_count, exit_status,
                   calls, files, frameVars>>

\* lines 348-350: the loop is over and main returns
BatchFinish ==
    /\ mpc = "batch"
    /\ cpc = "idle"
    /\ fileIdx = Len(npz_files)
    /\ Exit(0)
    /\ UNCHANGED <<args, dirEntries, npz_files, fileIdx, success_count,
                   reported, calls, files, cpc, frameVars>>

\* lines 354-355
SingleCall ==
    /\ mpc = "single"
    /\ cpc = "idle"
    /\ Call(args.input, args.output)
    /\ UNCHANGED <<args, dirEntries, mpc, npz_files, fileIdx, success_count,
                   exit_status, reported, files>>

\* line 355 returns and main ends
SingleSuccess ==
    /\ mpc = "single"
    /\ cpc = "returned"
    /\ Exit(0)
    /\ UNCHANGED <<args, dirEntries, npz_files, fileIdx, success_count,
                   reported, calls, files, cpc, frameVars>>

\* lines 356-361
SingleExcept ==
    /\ mpc = "single"
    /\ cpc = "raised"
    /\ reported' = Append(reported, exc)
    /\ Exit(1)
    /\ UNCHANGED <<args, dirEntries, npz_files, fileIdx, success_count, calls,
                   files, cpc, frameVars>>

Next ==
    \/ MainStart
    \/ BatchCall
    \/ BatchSuccess
    \/ BatchExcept
    \/ BatchFinish
    \/ SingleCall
    \/ SingleSuccess
    \/ SingleExcept
    \/ Load
    \/ Normalize
    \/ Betas
    \/ AnalyzeHands
    \/ BuildBundle
    \/ PrepareSave
    \/ SaveSingle
    \/ SaveBatchFile
    \/ ReturnPaths

Spec == Init /\ [][Next]_vars

(***************************************************************************)
(* What the properties below speak about.                                  *)
(***************************************************************************)
\* the call has passed its normalization of pose_body (lines 93-120),
\* with or without an exception
PastNormalize ==
    /\ cpc \in {"betas", "analyze", "build", "save", "returned", "raised"}
    /\ "pose_body" \in DOMAIN mano_data
    /\ exc.type # "KeyError"

\* the call has passed lines 93-130 without an exception there
NormalizationCompleted ==
    /\ cpc \in {"analyze", "build", "save", "returned", "raised"}
    /\ betas # NoArray

RaisedInNormalize == PastNormalize /\ cpc = "raised" /\ betas = NoArray

RawShape == mano_data["pose_body"].shape

IsBT15x3(s) == Len(s) = 4 /\ s[3] = NumJoints /\ s[4] = AxisDim
IsT15x3(s) == Len(s) = 3 /\ s[2] = NumJoints /\ s[3] = AxisDim
IsT45(s) == Len(s) = 2 /\ s[2] = HandDim
IsBT45(s) == Len(s) = 3 /\ s[3] = HandDim
AcceptedLayout(s) == IsBT15x3(s) \/ IsT15x3(s) \/ IsT45(s) \/ IsBT45(s)

\* the trajectory and frame counts the layout gives the input
LayoutB(s) == IF IsBT15x3(s) \/ IsBT45(s) THEN s[1] ELSE 1
LayoutT(s) == IF IsBT15x3(s) \/ IsBT45(s) THEN s[2] ELSE s[1]

\* the bundles built so far, by their position in smplx_data_list
BuiltIndices == 1..Len(smplx_data_list)

\* C1: every pose_body of one of the four accepted layouts is normalized
\* without failure to shape (B, T, 45), B and T those of the input (B = 1
\* without a trajectory axis), and a (B, T, 45) input is left unchanged.
C1_NormalizationOfAcceptedLayouts ==
    (PastNormalize /\ AcceptedLayout(RawShape)) =>
        /\ ~RaisedInNormalize
        /\ pose_body.shape = <<LayoutB(RawShape), LayoutT(RawShape), HandDim>>
        /\ B = LayoutB(RawShape)
        /\ T = LayoutT(RawShape)
        /\ IsBT45(RawShape) => pose_body = mano_data["pose_body"]

\* C2: a conversion that returns has built and written exactly one bundle for
\* each trajectory index b in [0, B), B read off the normalized pose_body.
C2_OneBundlePerTrajectory ==
    cpc = "returned" =>
        /\ Len(smplx_data_list) = pose_body.shape[1]
        /\ Len(output_paths) = pose_body.shape[1]
        /\ \A b \in 0..(pose_body.shape[1] - 1) :
              Cardinality({k \in BuiltIndices :
                  smplx_data_list[k]["_metadata"].original_batch_idx = b}) = 1

\* the sidedness of trajectory b as the input states it: the first value of
\* its is_right row, right when is_right is absent
InputSideIsRight(b) ==
    IF "is_right" \notin DOMAIN mano_data THEN TRUE
    ELSE LET a == mano_data["is_right"]
         IN  IF Rank(a) = 1 THEN a.data[1] # 0
             ELSE a.data[b * a.shape[2] + 1] # 0

\* the hand pose of trajectory b in the normalized pose_body: frames
\* b*T .. b*T + T-1 of the flat data, 45 values each
SourceHandPose(b) ==
    [shape |-> <<pose_body.shape[2], HandDim>>,
     data |-> [i \in 1..(pose_body.shape[2] * HandDim) |->
                 pose_body.data[b * pose_body.shape[2] * HandDim + i]]]

\* C3: in every output bundle one of right_hand_pose / left_hand_pose is the
\* source hand pose pose_body[b] of shape (T, 45), on the side the
\* trajectory's sidedness names, and the other is all zero of the same shape;
\* they are never both non-zero, and not both zero when the source is not.
C3_HandRouting ==
    \A k \in BuiltIndices :
        LET d == smplx_data_list[k]
            b == d["_metadata"].original_batch_idx
            src == SourceHandPose(b)
            zero == [shape |-> <<pose_body.shape[2], HandDim>>,
                     data |-> [i \in 1..(pose_body.shape[2] * HandDim) |-> 0]]
        IN  /\ b = hands_info[k].batch_idx
            /\ IF InputSideIsRight(b)
               THEN d["right_hand_pose"] = src /\ d["left_hand_pose"] = zero
               ELSE d["left_hand_pose"] = src /\ d["right_hand_pose"] = zero
            /\ ~(~AllZero(d["right_hand_pose"]) /\ ~AllZero(d["left_hand_pose"]))
            /\ ~AllZero(src) =>
                  ~(AllZero(d["right_hand_pose"]) /\ AllZero(d["left_hand_pose"]))

\* C3 happens: a returned conversion of two trajectories whose second one is
\* a left hand with a non-zero pose
C3_Witness ==
    /\ cpc = "returned"
    /\ Len(smplx_data_list) = 2
    /\ ~hands_info[2].is_right
    /\ hands_info[1].is_right
    /\ ~AllZero(smplx_data_list[2]["left_hand_pose"])
    /\ AllZero(smplx_data_list[2]["right_hand_pose"])

\* C4: in every output bundle global_orient, transl, right_hand_pose,
\* left_hand_pose and body_pose have the same number of frames, which is the
\* num_frames recorded for the trajectory in hands_info, which is the T of
\* the normalized pose_body.
C4_FrameCountLaw ==
    \A k \in BuiltIndices :
        LET d == smplx_data_list[k]
            n == hands_info[k].num_frames
        IN  /\ d["global_orient"].shape[1] = n
            /\ d["transl"].shape[1] = n
            /\ d["right_hand_pose"].shape[1] = n
            /\ d["left_hand_pose"].shape[1] = n
            /\ d["body_pose"].shape[1] = n
            /\ n = pose_body.shape[2]

\* C5: body_pose of every output bundle, in memory and in the file written,
\* is all zero and of shape (T, 63), T the frame count of the normalized
\* pose_body.
C5_BodyPoseZero ==
    /\ \A k \in BuiltIndices :
          /\ smplx_data_list[k]["body_pose"].shape = <<pose_body.shape[2], 63>>
          /\ Len(smplx_data_list[k]["body_pose"].data) = pose_body.shape[2] * 63
          /\ AllZero(smplx_data_list[k]["body_pose"])
    /\ \A i \in 1..Len(output_paths) :
          LET f == files[SavezFile(output_paths[i])]
          IN  /\ f["body_pose"].shape = <<pose_body.shape[2], 63>>
              /\ AllZero(f["body_pose"])

\* C5 happens: a conversion has returned after writing a bundle whose hand
\* pose is not zero, from an input with joints as an axis of their own
C5_Witness ==
    /\ cpc = "returned"
    /\ Rank(mano_data["pose_body"]) = 4
    /\ Len(output_paths) = 2
    /\ ~AllZero(mano_data["pose_body"])
    /\ ~AllZero(files[SavezFile(output_paths[2])]["left_hand_pose"])

\* C6: once normalization has completed, pose_body, root_orient, trans and
\* betas all have leading dimension B, and pose_body, root_orient and trans
\* have second dimension T, whether betas was given with rank 2, given with
\* rank 1 and promoted, or absent and synthesized.
C6_CanonicalBundle ==
    NormalizationCompleted =>
        /\ Rank(pose_body) >= 2 /\ Rank(root_orient) >= 2
        /\ Rank(trans) >= 2 /\ Rank(betas) >= 1
        /\ pose_body.shape[1] = B
        /\ root_orient.shape[1] = B
        /\ trans.shape[1] = B
        /\ betas.shape[1] = B
        /\ pose_body.shape[2] = T
        /\ root_orient.shape[2] = T
        /\ trans.shape[2] = T

\* C7: a pose_body whose rank is not 2, 3 or 4 makes the call fail with an
\* error whose message names the unsupported shape, and the call writes no
\* file.
C7_UnsupportedRank ==
    (PastNormalize /\ Rank(mano_data["pose_body"]) \notin {2, 3, 4}) =>
        /\ cpc = "raised"
        /\ RawShape \in exc.shapes
        /\ output_paths = <<>>

\* the directory was given and main went into its loop over the files
BatchMode == IsDir(args.input)

\* the paths of the files of the listing that end in .npz and do not hold
\* 'smplx', in any letter case (caseBlind) or as written
RECURSIVE ExpectedCalls(_, _)
ExpectedCalls(names, caseBlind) ==
    IF names = <<>> THEN <<>>
    ELSE LET f == Head(names)
             g == IF caseBlind THEN Lower(f) ELSE f
             rest == ExpectedCalls(Tail(names), caseBlind)
         IN  IF EndsWith(f, DotNpz) /\ ~Contains(g, Smplx)
             THEN <<Join(DirPath, f)>> \o rest
             ELSE rest

\* the driver's law for a given list of the files it is to attempt
DriverLaw(expected) ==
    /\ BatchMode =>
          /\ Len(calls) <= Len(expected)
          /\ calls = SubSeq(expected, 1, Len(calls))
          /\ success_count + Len(reported)
                = Len(calls) - (IF cpc = "idle" THEN 0 ELSE 1)
    /\ (BatchMode /\ mpc = "exited" /\ expected # <<>>) =>
          /\ calls = expected
          /\ exit_status = 0
    /\ (~BatchMode /\ mpc = "exited" /\ cpc = "raised") => exit_status = 1

\* C8 as stated: in batch mode every file whose name ends in .npz and does
\* not contain 'smplx' is attempted once, in turn, whatever happened to the
\* files before it; success_count is the number of calls that did not raise;
\* the exit status is 0; in single-file mode a raised error exits with 1.
C8_BatchDriverAsStated == DriverLaw(ExpectedCalls(dirEntries, FALSE))

\* C8 amended: the same, the eligible files being those whose name ends in
\* .npz and does not contain 'smplx' in any letter case.
C8_BatchDriver == DriverLaw(ExpectedCalls(dirEntries, TRUE))

\* C8 happens: the first file of the batch failed, the second was converted,
\* and the process ended with status 0
C8_Witness ==
    /\ BatchMode
    /\ mpc = "exited"
    /\ Len(calls) = 2
    /\ calls[1] = Join(DirPath, FileB)
    /\ Len(reported) = 1
    /\ success_count = 1
    /\ exit_status = 0

\* the path C9 gives trajectory i: the extension of the single-trajectory
\* path replaced by _batch{i}_{side} and the extension
NamedBatchPath(out, i, is_right) ==
    SplitExt(out).root \o BatchWord \o IntToStr(i) \o <<"_">>
        \o HandType(is_right) \o SplitExt(out).ext

\* C9: with B = 1 one file is written, at the single-trajectory output path;
\* with B > 1 trajectory i is written to that path with its extension
\* replaced by _batch{i}_{right|left} and the extension, for a default or a
\* given output path, so that no two trajectories are written to one file.
C9_OutputNaming ==
    cpc \in {"save", "returned"} =>
        /\ (B = 1 /\ cpc = "returned") => output_paths = <<output_path>>
        /\ B > 1 =>
              /\ \A i \in 1..Len(output_paths) :
                    output_paths[i] =
                        NamedBatchPath(output_path, i - 1, hands_info[i].is_right)
              /\ \A i, j \in 1..Len(output_paths) :
                    i # j => SavezFile(output_paths[i]) # SavezFile(output_paths[j])

\* C10 as stated and as amended, for the test that decides the indexing
CameraLaw(indexedR(_), indexedT(_)) ==
    \A k \in BuiltIndices :
        LET d == smplx_data_list[k]
            b == hands_info[k].batch_idx
        IN  /\ ("cam_R" \in DOMAIN d) = ("cam_R" \in DOMAIN mano_data)
            /\ ("cam_t" \in DOMAIN d) = ("cam_t" \in DOMAIN mano_data)
            /\ ("intrins" \in DOMAIN d) = ("intrins" \in DOMAIN mano_data)
            /\ "cam_R" \in DOMAIN mano_data =>
                  d["cam_R"] = IF indexedR(mano_data["cam_R"])
                               THEN Index(mano_data["cam_R"], b)
                               ELSE mano_data["cam_R"]
            /\ "cam_t" \in DOMAIN mano_data =>
                  d["cam_t"] = IF indexedT(mano_data["cam_t"])
                               THEN Index(mano_data["cam_t"], b)
                               ELSE mano_data["cam_t"]
            /\ "intrins" \in DOMAIN mano_data =>
                  d["intrins"] = mano_data["intrins"]

LeadingDimIsB(a) == B > 1 /\ Rank(a) >= 1 /\ a.shape[1] = B
RankAbove2(a) == B > 1 /\ Rank(a) > 2
RankAbove1(a) == B > 1 /\ Rank(a) > 1

====
